---- MODULE Spec2Model ----
(***************************************************************************)
(* Model of src/user_config.rs: the key-description parser parse_key, the  *)
(* reserved-key guard check_reserved_keys and UserConfig::load_config.     *)
(*                                                                         *)
(* A Rust String is a sequence of characters; a character is a one-letter  *)
(* TLA+ string, and a character outside ASCII is written as its code       *)
(* point ("U+00E9").  A Result is a record tagged by kind: "Ok" with a     *)
(* value, "Err" with an error, and "Panic" for a call that unwinds         *)
(* instead of returning.                                                   *)
(***************************************************************************)
EXTENDS Integers, Sequences, FiniteSets, TLC

VARIABLES
    key,        \* parse_key: the argument `key`
    parsed,     \* parse_key: what the call produced
    rkey,       \* check_reserved_keys: the argument `key`
    checked,    \* check_reserved_keys: what the call produced
    fs,         \* load_config: the home directory, the config directories and file
    userConfig, \* load_config: the UserConfig `self`
    result,     \* load_config: what the call produced
    pc          \* the position of the caller: before or after the call

vars == <<key, parsed, rkey, checked, fs, userConfig, result, pc>>

-----------------------------------------------------------------------------
(* Bounds of the model *)

\* the most '-'-separated sections an enumerated key description has
MaxSections == 3

\* the most fields an enumerated config.yml sets
MaxOverrides == 2

-----------------------------------------------------------------------------
(* Result and Option *)

Ok(v) == [kind |-> "Ok", value |-> v]
Err(e) == [kind |-> "Err", error |-> e]
Panic == [kind |-> "Panic"]
Unit == "()"

None == [some |-> FALSE]
Some(v) == [some |-> TRUE, value |-> v]

-----------------------------------------------------------------------------
(* termion::event::Key, the variants the module uses *)

Char(c) == [tag |-> "Char", c |-> c]
Ctrl(c) == [tag |-> "Ctrl", c |-> c]
Alt(c) == [tag |-> "Alt", c |-> c]
Left == [tag |-> "Left"]
Right == [tag |-> "Right"]
Up == [tag |-> "Up"]
Down == [tag |-> "Down"]
Backspace == [tag |-> "Backspace"]
Delete == [tag |-> "Delete"]
Esc == [tag |-> "Esc"]
PageUp == [tag |-> "PageUp"]
PageDown == [tag |-> "PageDown"]

-----------------------------------------------------------------------------
(* The string operations of the standard library that parse_key calls *)

UpperCase ==
    <<"A", "B", "C", "D", "E", "F", "G", "H", "I", "J", "K", "L", "M", "N",
      "O", "P", "Q", "R", "S", "T", "U", "V", "W", "X", "Y", "Z", "U+00C9">>

LowerCase ==
    <<"a", "b", "c", "d", "e", "f", "g", "h", "i", "j", "k", "l", "m", "n",
      "o", "p", "q", "r", "s", "t", "u", "v", "w", "x", "y", "z", "U+00E9">>

\* char::to_lowercase
char_to_lowercase(c) ==
    IF \E i \in 1..Len(UpperCase) : UpperCase[i] = c
    THEN LowerCase[CHOOSE i \in 1..Len(UpperCase) : UpperCase[i] = c]
    ELSE c

\* a faulty variant of to_lowercase: the section is matched as written
to_lowercase_keep(s) == s

\* str::to_lowercase, line 33
to_lowercase(s) ==
    IF s = <<>> THEN <<>> ELSE [i \in 1..Len(s) |-> char_to_lowercase(s[i])]

\* char::len_utf8: the bytes of a character's encoding
len_utf8(c) == IF c \in {"U+00E9", "U+00C9"} THEN 2 ELSE 1

\* String::len, line 20: the length in bytes
RECURSIVE len(_)
len(s) == IF s = <<>> THEN 0 ELSE len_utf8(Head(s)) + len(Tail(s))

\* str::split(sep).collect(), line 23
RECURSIVE split(_, _)
split(s, sep) ==
    IF \A i \in 1..Len(s) : s[i] # sep
    THEN <<s>>
    ELSE LET i == CHOOSE n \in 1..Len(s) :
                      s[n] = sep /\ \A j \in 1..(n - 1) : s[j] # sep
         IN <<SubSeq(s, 1, i - 1)>> \o split(SubSeq(s, i + 1, Len(s)), sep)

\* the white space str::trim removes, among the characters of the model
WhiteSpace == {" ", "\n", "\t"}

\* a faulty variant of trim_is_empty: is_empty() without trim()
trim_is_empty_untrimmed(s) == s = <<>>

\* str::trim().is_empty(), line 174
trim_is_empty(s) == \A i \in 1..Len(s) : s[i] \in WhiteSpace

-----------------------------------------------------------------------------
(* parse_key *)

\* lines 13-18: the first character, or a panic when there is none
get_single_char(string) ==
    IF Len(string) >= 1 THEN Ok(string[1]) ELSE Panic

\* sections[1], lines 34-35: indexing a Vec panics out of bounds
index(sections, i) ==
    IF i < Len(sections) THEN Ok(sections[i + 1]) ELSE Panic

\* Key::Ctrl(get_single_char(sections[1])), lines 34-35
modified(tag, sections) ==
    LET s == index(sections, 1) IN
    IF s.kind = "Panic" THEN Panic
    ELSE LET c == get_single_char(s.value) IN
         IF c.kind = "Panic" THEN Panic
         ELSE Ok([tag |-> tag, c |-> c.value])

\* a faulty variant of too_many_sections: it reports the number of '-'
too_many_sections_dashes(k, sections) ==
    Err([msg |-> "Shortcut can only have 2 keys", key |-> k,
         has |-> Len(sections) - 1])

\* lines 26-30
too_many_sections(k, sections) ==
    Err([msg |-> "Shortcut can only have 2 keys", key |-> k,
         has |-> Len(sections)])

\* a faulty variant of unknown_key: it names the lower-cased section
unknown_key_lowercased(sections) ==
    Err([msg |-> "The key is unknown", key |-> to_lowercase(sections[1])])

\* lines 46-49
unknown_key(sections) ==
    Err([msg |-> "The key is unknown", key |-> sections[1]])

\* lines 33-50
match_section(sections) ==
    LET name == to_lowercase(sections[1]) IN
    CASE name = <<"c", "t", "r", "l">> -> modified("Ctrl", sections)
      [] name = <<"a", "l", "t">> -> modified("Alt", sections)
      [] name = <<"l", "e", "f", "t">> -> Ok(Left)
      [] name = <<"r", "i", "g", "h", "t">> -> Ok(Right)
      [] name = <<"u", "p">> -> Ok(Up)
      [] name = <<"d", "o", "w", "n">> -> Ok(Down)
      [] name = <<"b", "a", "c", "k", "s", "p", "a", "c", "e">> -> Ok(Backspace)
      [] name = <<"d", "e", "l", "e", "t", "e">> -> Ok(Backspace)
      [] name = <<"d", "e", "l">> -> Ok(Delete)
      [] name = <<"e", "s", "c">> -> Ok(Esc)
      [] name = <<"e", "s", "c", "a", "p", "e">> -> Ok(Esc)
      [] name = <<"p", "a", "g", "e", "u", "p">> -> Ok(PageUp)
      [] name = <<"p", "a", "g", "e", "d", "o", "w", "n">> -> Ok(PageDown)
      [] name = <<"s", "p", "a", "c", "e">> -> Ok(Char(" "))
      [] OTHER -> unknown_key(sections)

\* lines 12-53
parse_key(k) ==
    IF len(k) = 1
    THEN LET c == get_single_char(k) IN
         IF c.kind = "Panic" THEN Panic ELSE Ok(Char(c.value))
    ELSE LET sections == split(k, "-") IN
         IF Len(sections) > 2
         THEN too_many_sections(k, sections)
         ELSE match_section(sections)

-----------------------------------------------------------------------------
(* check_reserved_keys *)

\* a faulty variant of reserved: the enter key is missing
reserved_without_enter ==
    <<Char("h"), Char("j"), Char("k"), Char("l"), Up, Down, Left, Right,
      Backspace>>

\* lines 56-67
reserved ==
    <<Char("h"), Char("j"), Char("k"), Char("l"), Up, Down, Left, Right,
      Backspace, Char("\n")>>

\* a faulty variant of check_reserved_keys: every key is accepted
check_reserved_keys_off(k) == Ok(Unit)

\* lines 55-78
check_reserved_keys(k) ==
    IF \E i \in 1..Len(reserved) : k = reserved[i]
    THEN Err([msg |-> "The key is reserved and cannot be remapped", key |-> k])
    ELSE Ok(Unit)

-----------------------------------------------------------------------------
(* UserConfig *)

\* lines 81-97 and 188-202: the fields, in the order load_config visits them
FieldOrder ==
    <<"back", "jump_to_album", "jump_to_artist_album", "manage_devices",
      "decrease_volume", "increase_volume", "toggle_playback",
      "seek_backwards", "seek_forwards", "next_track", "previous_track",
      "help", "shuffle", "repeat", "search">>

Fields == { FieldOrder[i] : i \in 1..Len(FieldOrder) }

\* lines 122-140
new ==
    [back |-> Char("q"), jump_to_album |-> Char("a"),
     jump_to_artist_album |-> Char("A"), manage_devices |-> Char("d"),
     decrease_volume |-> Char("-"), increase_volume |-> Char("+"),
     toggle_playback |-> Char(" "), seek_backwards |-> Char("<"),
     seek_forwards |-> Char(">"), next_track |-> Char("n"),
     previous_track |-> Char("p"), help |-> Char("?"),
     shuffle |-> Char("s"), repeat |-> Char("r"), search |-> Char("/")]

\* lines 149-155: a missing directory is created, which may fail
create_if_missing(dir) == IF dir = "creatable" THEN "exists" ELSE dir

\* lines 142-167: the directories after the call, and the path or the error
get_or_build_paths(f) ==
    IF ~f.home
    THEN [fs |-> f,
          result |-> Err([msg |-> "No $HOME directory found for client config"])]
    ELSE IF f.home_config_dir = "uncreatable"
    THEN [fs |-> f, result |-> Err([msg |-> "create_dir"])]
    ELSE LET f1 == [f EXCEPT !.home_config_dir = create_if_missing(@)] IN
         IF f1.app_config_dir = "uncreatable"
         THEN [fs |-> f1, result |-> Err([msg |-> "create_dir"])]
         ELSE [fs |-> [f1 EXCEPT !.app_config_dir = create_if_missing(@)],
               result |-> Ok("config.yml")]

\* lines 179-186: one use of the macro, on the field `name`
to_keys(config, config_yml, name) ==
    IF ~config_yml[name].some
    THEN [config |-> config, result |-> Ok(Unit)]
    ELSE LET p == parse_key(config_yml[name].value) IN
         IF p.kind # "Ok"
         THEN [config |-> config, result |-> p]
         ELSE LET assigned == [config EXCEPT ![name] = p.value] IN
              [config |-> assigned,
               result |-> check_reserved_keys(assigned[name])]

\* lines 188-204: the uses of the macro from the i-th on, then Ok(())
RECURSIVE all_to_keys(_, _, _)
all_to_keys(config, config_yml, i) ==
    IF i > Len(FieldOrder)
    THEN [config |-> config, result |-> Ok(Unit)]
    ELSE LET r == to_keys(config, config_yml, FieldOrder[i]) IN
         IF r.result.kind = "Ok"
         THEN all_to_keys(r.config, config_yml, i + 1)
         ELSE r

\* lines 169-208
load_config(f, config) ==
    LET paths == get_or_build_paths(f) IN
    IF paths.result.kind # "Ok"
    THEN [fs |-> paths.fs, config |-> config, result |-> paths.result]
    ELSE IF paths.fs.file = "absent"
    THEN [fs |-> paths.fs, config |-> config, result |-> Ok(Unit)]
    ELSE IF paths.fs.file = "unreadable"
    THEN [fs |-> paths.fs, config |-> config,
          result |-> Err([msg |-> "read_to_string"])]
    ELSE IF trim_is_empty(paths.fs.config_string)
    THEN [fs |-> paths.fs, config |-> config, result |-> Ok(Unit)]
    ELSE IF paths.fs.from_str.kind # "Ok"
    THEN [fs |-> paths.fs, config |-> config, result |-> paths.fs.from_str]
    ELSE LET r == all_to_keys(config, paths.fs.from_str.value, 1) IN
         [fs |-> paths.fs, config |-> r.config, result |-> r.result]

-----------------------------------------------------------------------------
(* The callers of parse_key and check_reserved_keys: one call each *)

NotCalled == [kind |-> "None"]
Idle == "idle"

\* the sections the enumerated key descriptions are made of
Words ==
    { <<>>, <<"j">>, <<"J">>, <<"U+00E9">>, <<"J", "k">>,
      <<"c", "t", "r", "l">>, <<"C", "t", "r", "l">>,
      <<"a", "l", "t">>, <<"A", "L", "T">>,
      <<"l", "e", "f", "t">>, <<"r", "i", "g", "h", "t">>,
      <<"u", "p">>, <<"D", "o", "w", "n">>,
      <<"b", "a", "c", "k", "s", "p", "a", "c", "e">>,
      <<"d", "e", "l", "e", "t", "e">>, <<"d", "e", "l">>,
      <<"e", "s", "c">>, <<"E", "s", "c", "a", "p", "e">>,
      <<"p", "a", "g", "e", "u", "p">>,
      <<"p", "a", "g", "e", "d", "o", "w", "n">>,
      <<"s", "p", "a", "c", "e">>,
      <<"b", "o", "g", "u", "s">>, <<"B", "o", "g", "u", "s">> }

\* the sections joined by '-'
RECURSIVE join(_)
join(ws) ==
    IF Len(ws) = 1 THEN ws[1] ELSE ws[1] \o <<"-">> \o join(Tail(ws))

\* the key is made of at most MaxSections sections
InitParse ==
    /\ \E n \in 1..MaxSections : \E ws \in [1..n -> Words] : key = join(ws)
    /\ parsed = NotCalled
    /\ pc = "call"
    /\ rkey = Idle /\ checked = Idle
    /\ fs = Idle /\ userConfig = Idle /\ result = Idle

ParseKey ==
    /\ pc = "call"
    /\ parsed' = parse_key(key)
    /\ pc' = "done"
    /\ UNCHANGED <<key, rkey, checked, fs, userConfig, result>>

NextParse == ParseKey

SpecParse == InitParse /\ [][NextParse]_vars

\* the characters of the enumerated keys
KeyChars ==
    { "h", "j", "k", "l", "\n", "H", "J", "K", "L", "q", "a", "A", "d", "-",
      "+", " ", "<", ">", "n", "p", "?", "s", "r", "/", "U+00E9" }

Keys ==
    { Char(c) : c \in KeyChars } \cup { Ctrl(c) : c \in KeyChars }
        \cup { Alt(c) : c \in KeyChars }
        \cup { Left, Right, Up, Down, Backspace, Delete, Esc, PageUp, PageDown }

InitReserved ==
    /\ rkey \in Keys
    /\ checked = NotCalled
    /\ pc = "call"
    /\ key = Idle /\ parsed = Idle
    /\ fs = Idle /\ userConfig = Idle /\ result = Idle

CheckReservedKeys ==
    /\ pc = "call"
    /\ checked' = check_reserved_keys(rkey)
    /\ pc' = "done"
    /\ UNCHANGED <<key, parsed, rkey, fs, userConfig, result>>

NextReserved == CheckReservedKeys

SpecReserved == InitReserved /\ [][NextReserved]_vars

-----------------------------------------------------------------------------
(* The caller of load_config: one call on a UserConfig made by new() *)

\* the key descriptions the enumerated config.yml files give to a field
OverrideStrings ==
    { <<"c", "t", "r", "l", "-", "h">>, <<"j">>, <<"u", "p">>,
      <<"d", "o", "w", "n">>, <<"l", "e", "f", "t">>,
      <<"r", "i", "g", "h", "t">>,
      <<"b", "a", "c", "k", "s", "p", "a", "c", "e">>,
      <<"d", "e", "l", "e", "t", "e">>, <<"b", "o", "g", "u", "s">>,
      <<"c", "t", "r", "l", "-">> }

\* the UserConfigString record that sets the fields of DOMAIN f as f says
ConfigYml(f) == [a \in Fields |-> IF a \in DOMAIN f THEN Some(f[a]) ELSE None]

\* file contents that are empty or white space only, and one that is neither
BlankTexts == { <<>>, <<" ">>, <<"\n">>, <<" ", "\t", "\n">> }
YamlText == <<" ", "k", ":", " ", "v", "\n">>

\* line 173: serde fails if the file is empty
EndOfStream == Err([msg |-> "serde_yaml: EndOfStream"])
Malformed == Err([msg |-> "serde_yaml: invalid"])

NoFile ==
    [home |-> TRUE, home_config_dir |-> "exists", app_config_dir |-> "exists",
     file |-> "absent", config_string |-> <<>>, from_str |-> EndOfStream]

\* the file systems without a config.yml that deserializes
FileSystems ==
    { [NoFile EXCEPT !.home = FALSE] }
    \cup { [NoFile EXCEPT !.home_config_dir = h, !.app_config_dir = a] :
             h \in {"creatable", "uncreatable"},
             a \in {"creatable", "uncreatable"} }
    \cup { [NoFile EXCEPT !.app_config_dir = a] :
             a \in {"exists", "creatable", "uncreatable"} }
    \cup { [NoFile EXCEPT !.file = "unreadable"] }
    \cup { [NoFile EXCEPT !.file = "readable", !.config_string = t] :
             t \in BlankTexts }
    \cup { [NoFile EXCEPT !.file = "readable", !.config_string = YamlText,
                          !.from_str = Malformed] }

\* a config.yml that deserializes to config_yml
Deserializing(config_yml) ==
    [NoFile EXCEPT !.file = "readable", !.config_string = YamlText,
                   !.from_str = Ok(config_yml)]

Init ==
    /\ \/ fs \in FileSystems
       \/ \E D \in SUBSET Fields :
              /\ Cardinality(D) <= MaxOverrides
              /\ \E f \in [D -> OverrideStrings] :
                     fs = Deserializing(ConfigYml(f))
    /\ userConfig = new
    /\ result = NotCalled
    /\ pc = "new"
    /\ key = Idle /\ parsed = Idle
    /\ rkey = Idle /\ checked = Idle

LoadConfig ==
    /\ pc = "new"
    /\ LET r == load_config(fs, userConfig) IN
           /\ fs' = r.fs
           /\ userConfig' = r.config
           /\ result' = r.result
    /\ pc' = "loaded"
    /\ UNCHANGED <<key, parsed, rkey, checked>>

Next == LoadConfig

Spec == Init /\ [][Next]_vars

-----------------------------------------------------------------------------
(* What the claims speak of, stated on the key description itself *)

\* the number of '-' in a key description
Dashes(k) == Cardinality({ i \in 1..Len(k) : k[i] = "-" })

\* s and the lower-case word w are equal up to the case of s
EqualsIgnoringCase(s, w) ==
    /\ Len(s) = Len(w)
    /\ \A i \in 1..Len(s) : char_to_lowercase(s[i]) = w[i]

\* the text before the first '-', the whole text when there is none
FirstSection(k) ==
    IF \E i \in 1..Len(k) : k[i] = "-"
    THEN SubSeq(k, 1, (CHOOSE n \in 1..Len(k) :
                           k[n] = "-" /\ \A j \in 1..(n - 1) : k[j] # "-") - 1)
    ELSE k

IsModifier(s) ==
    \/ EqualsIgnoringCase(s, <<"c", "t", "r", "l">>)
    \/ EqualsIgnoringCase(s, <<"a", "l", "t">>)

\* the keyword table of the specification, without its ctrl and alt rows
KeywordTable ==
    { <<<<"l", "e", "f", "t">>, Left>>,
      <<<<"r", "i", "g", "h", "t">>, Right>>,
      <<<<"u", "p">>, Up>>,
      <<<<"d", "o", "w", "n">>, Down>>,
      <<<<"b", "a", "c", "k", "s", "p", "a", "c", "e">>, Backspace>>,
      <<<<"d", "e", "l", "e", "t", "e">>, Backspace>>,
      <<<<"d", "e", "l">>, Delete>>,
      <<<<"e", "s", "c">>, Esc>>,
      <<<<"e", "s", "c", "a", "p", "e">>, Esc>>,
      <<<<"p", "a", "g", "e", "u", "p">>, PageUp>>,
      <<<<"p", "a", "g", "e", "d", "o", "w", "n">>, PageDown>>,
      <<<<"s", "p", "a", "c", "e">>, Char(" ")>> }

\* C2: parse_key is total on non-empty input: every call on a non-empty key
\* description returns a key or an error value and never panics, also for
\* "ctrl-", "alt-", "ctrl" and "alt".
ParseKeyNeverPanics ==
    (pc = "done" /\ key # <<>>) => parsed.kind \in {"Ok", "Err"}

\* C3: for every key description of exactly one character, parse_key returns
\* the plain-character key of that character, whatever the character is,
\* also one whose encoding is longer than one byte.
SingleCharacterIsPlainKey ==
    (pc = "done" /\ Len(key) = 1) => parsed = Ok(Char(key[1]))

\* C4: for every key description <m>-<t> with exactly one '-', <m> equal to
\* "ctrl" (resp. "alt") up to case and <t> non-empty, parse_key returns
\* Ctrl(c) (resp. Alt(c)) for c the first character of <t>, case preserved.
ModifierTakesFirstCharacter ==
    pc = "done" =>
        \A i \in 1..Len(key) :
            (key[i] = "-" /\ Dashes(key) = 1 /\ i < Len(key)) =>
                /\ EqualsIgnoringCase(SubSeq(key, 1, i - 1), <<"c", "t", "r", "l">>)
                       => parsed = Ok(Ctrl(key[i + 1]))
                /\ EqualsIgnoringCase(SubSeq(key, 1, i - 1), <<"a", "l", "t">>)
                       => parsed = Ok(Alt(key[i + 1]))

ModifierTakesFirstCharacterWitness ==
    /\ pc = "done"
    /\ key = <<"C", "t", "r", "l", "-", "J", "k">>
    /\ parsed = Ok(Ctrl("J"))

\* C5: for every key description that is not a single character and holds
\* more than one '-', parse_key fails with the too-many-sections error, which
\* reports the number of '-' plus one, also when the first section is a keyword.
TooManySectionsReported ==
    (pc = "done" /\ Len(key) # 1 /\ Dashes(key) > 1) =>
        /\ parsed.kind = "Err"
        /\ parsed.error = [msg |-> "Shortcut can only have 2 keys",
                           key |-> key, has |-> Dashes(key) + 1]

TooManySectionsReportedWitness ==
    /\ pc = "done"
    /\ key = <<"c", "t", "r", "l", "-", "-">>
    /\ parsed.kind = "Err"
    /\ parsed.error.has = 3

\* C6: for every key description that is not a single character, holds at most
\* one '-' and whose first section is neither "ctrl" nor "alt", the lower-cased
\* first section alone decides the result: the key of its table row, and the
\* unknown-key error naming the first section when no row matches.
KeywordTableDecides ==
    (pc = "done" /\ Len(key) # 1 /\ Dashes(key) <= 1
        /\ ~IsModifier(FirstSection(key))) =>
        IF \E row \in KeywordTable : EqualsIgnoringCase(FirstSection(key), row[1])
        THEN \A row \in KeywordTable :
                 EqualsIgnoringCase(FirstSection(key), row[1])
                     => parsed = Ok(row[2])
        ELSE /\ parsed.kind = "Err"
             /\ parsed.error = [msg |-> "The key is unknown",
                                key |-> FirstSection(key)]

KeywordTableDecidesWitness ==
    /\ pc = "done"
    /\ key = <<"D", "o", "w", "n", "-", "j">>
    /\ parsed = Ok(Down)

\* C7: check_reserved_keys fails, with the reserved-key error naming the key,
\* exactly for the ten keys Char('h'), Char('j'), Char('k'), Char('l'), Up,
\* Down, Left, Right, Backspace and Char('\n'), and succeeds for every other key.
ReservedExactlyTheTen ==
    pc = "done" =>
        IF rkey \in { Char("h"), Char("j"), Char("k"), Char("l"), Up, Down,
                      Left, Right, Backspace, Char("\n") }
        THEN /\ checked.kind = "Err"
             /\ checked.error.key = rkey
        ELSE checked = Ok(Unit)

ReservedExactlyTheTenWitness ==
    /\ pc = "done"
    /\ rkey = Ctrl("j")
    /\ checked = Ok(Unit)

-----------------------------------------------------------------------------
(* What the claims speak of, stated on the configuration file *)

\* the ten reserved keys of the specification
ReservedTen ==
    { Char("h"), Char("j"), Char("k"), Char("l"), Up, Down, Left, Right,
      Backspace, Char("\n") }

ReservedError(k) ==
    Err([msg |-> "The key is reserved and cannot be remapped", key |-> k])

\* the directories exist and config.yml was read and deserialized
Deserialized ==
    /\ fs.home
    /\ fs.home_config_dir = "exists" /\ fs.app_config_dir = "exists"
    /\ fs.file = "readable"
    /\ \E i \in 1..Len(fs.config_string) : fs.config_string[i] \notin WhiteSpace
    /\ fs.from_str.kind = "Ok"

\* the directories exist and config.yml is absent, empty or white space only
NothingToApply ==
    /\ fs.home
    /\ fs.home_config_dir = "exists" /\ fs.app_config_dir = "exists"
    /\ \/ fs.file = "absent"
       \/ /\ fs.file = "readable"
          /\ \A i \in 1..Len(fs.config_string) : fs.config_string[i] \in WhiteSpace

\* config.yml gives the field an override
Overrides(a) == Deserialized /\ fs.from_str.value[a].some

Override(a) == fs.from_str.value[a].value

\* the override of the field does not parse, or parses to a reserved key
Rejected(a) ==
    /\ Overrides(a)
    /\ \/ parse_key(Override(a)).kind # "Ok"
       \/ parse_key(Override(a)).value \in ReservedTen

\* the i-th field is the first, in the order of load_config, that is rejected
FirstRejected(i) ==
    /\ Rejected(FieldOrder[i])
    /\ \A j \in 1..(i - 1) : ~Rejected(FieldOrder[j])

\* C1: when load_config stops because the override of a field parses to a
\* reserved key, it returns the reserved-key error and that field still holds
\* the value it had before the load, the default of new().
RejectedFieldKeepsItsValue ==
    pc = "loaded" =>
        \A i \in 1..Len(FieldOrder) :
            (/\ FirstRejected(i)
             /\ parse_key(Override(FieldOrder[i])).kind = "Ok") =>
                /\ result = ReservedError(parse_key(Override(FieldOrder[i])).value)
                /\ userConfig[FieldOrder[i]] = new[FieldOrder[i]]

\* C8: after a load_config that returns success on a UserConfig made by new(),
\* every field holds parse_key of its override when config.yml gives one and
\* its default otherwise; an absent, empty or white-space-only file gives none
\* and the load succeeds with the fifteen defaults.
SuccessfulLoadAppliesOverrides ==
    pc = "loaded" =>
        /\ result = Ok(Unit) =>
               \A a \in Fields :
                   userConfig[a] = IF Overrides(a)
                                   THEN parse_key(Override(a)).value
                                   ELSE new[a]
        /\ NothingToApply => (result = Ok(Unit) /\ userConfig = new)

SuccessfulLoadAppliesOverridesWitness ==
    /\ pc = "loaded"
    /\ Overrides("help")
    /\ Override("help") = <<"c", "t", "r", "l", "-", "h">>
    /\ \A a \in Fields \ {"help"} : ~Overrides(a)
    /\ result = Ok(Unit)
    /\ userConfig = [new EXCEPT !.help = Ctrl("h")]

\* C9: load_config visits the fields in the order of FieldOrder and stops at
\* the first whose override fails to parse or to validate: it returns that
\* field's error, every earlier field with an override holds its parsed
\* override, and every later field keeps the value it had before the load.
LoadStopsAtFirstRejected ==
    pc = "loaded" =>
        \A i \in 1..Len(FieldOrder) :
            FirstRejected(i) =>
                /\ result.kind = "Err"
                /\ result = IF parse_key(Override(FieldOrder[i])).kind = "Ok"
                            THEN ReservedError(parse_key(Override(FieldOrder[i])).value)
                            ELSE parse_key(Override(FieldOrder[i]))
                /\ \A j \in 1..(i - 1) :
                       Overrides(FieldOrder[j]) =>
                           userConfig[FieldOrder[j]]
                               = parse_key(Override(FieldOrder[j])).value
                /\ \A j \in (i + 1)..Len(FieldOrder) :
                       userConfig[FieldOrder[j]] = new[FieldOrder[j]]

\* C10: after a load_config that returns success on a UserConfig made by
\* new(), no field holds a reserved key; and an override of "up", "down",
\* "left", "right", "backspace" or "delete", for any field, makes the load fail.
NoReservedKeyAfterSuccess ==
    pc = "loaded" =>
        /\ result = Ok(Unit) => \A a \in Fields : userConfig[a] \notin ReservedTen
        /\ \A a \in Fields :
               (/\ Overrides(a)
                /\ Override(a) \in { <<"u", "p">>, <<"d", "o", "w", "n">>,
                                     <<"l", "e", "f", "t">>,
                                     <<"r", "i", "g", "h", "t">>,
                                     <<"b", "a", "c", "k", "s", "p", "a", "c", "e">>,
                                     <<"d", "e", "l", "e", "t", "e">> })
                   => result.kind # "Ok"

NoReservedKeyAfterSuccessWitness ==
    /\ pc = "loaded"
    /\ Overrides("back") /\ Override("back") = <<"c", "t", "r", "l", "-", "h">>
    /\ Overrides("search") /\ Override("search") = <<"d", "e", "l", "e", "t", "e">>
    /\ result = ReservedError(Backspace)

====
